---- MODULE Spec2Model ----
(***************************************************************************)
(* Model of touchdesigner/tower_rites_setup.py: the build() helper that    *)
(* assembles the towerRites network in the host's node graph, and the      *)
(* per-frame polling callback onFrameStart of AI_DRIVER_SCRIPT.            *)
(*                                                                         *)
(* Operators of the node graph are identified by their path (a sequence    *)
(* of names, the host's "/a/b/c") and by the serial number of the build()  *)
(* call that created them (gen), so that an operator recreated under the   *)
(* same path is a different object.  Times are in seconds, audio levels in   *)
(* units of 2/9, so that audio_env * 4.5 is a whole number of seconds.     *)
(***************************************************************************)
EXTENDS Integers, Sequences, FiniteSets, TLC

VARIABLES ops, inputs, pars, store, tables, nextGen, lastBuild,
          now, fs, lastFrame, lastReq

vars == <<ops, inputs, pars, store, tables, nextGen, lastBuild,
          now, fs, lastFrame, lastReq>>

graphVars == <<ops, inputs, pars, store, tables>>

(* ------------------------------ bounds -------------------------------- *)

MaxBuilds == 2
MaxNow == 3

(* ----------------------------- node graph ----------------------------- *)

PROJECT1 == <<"project1">>
STAGE == <<"stage">>
Roots == {PROJECT1, STAGE}

NoPath == <<>>

IsUnder(q, p) == Len(q) >= Len(p) /\ SubSeq(q, 1, Len(p)) = p

Parent(p) == SubSeq(p, 1, Len(p) - 1)

Graph == [ops |-> ops, inputs |-> inputs, pars |-> pars, store |-> store,
          tables |-> tables]

Exists(G, p) == \E o \in G.ops : o.path = p

OpAt(G, p) == CHOOSE o \in G.ops : o.path = p

GenOf(G, p) == IF Exists(G, p) THEN OpAt(G, p).gen ELSE -1

Children(G, p) == {o \in G.ops : Len(o.path) = Len(p) + 1 /\ IsUnder(o.path, p)}

(* stored values: one record shape for operator references, path strings, *)
(* numbers, booleans and strings                                          *)
OpVal(p, g) == [kind |-> "op", path |-> p, gen |-> g, num |-> 0, str |-> ""]
PathVal(p) == [kind |-> "path", path |-> p, gen |-> 0, num |-> 0, str |-> ""]
NumVal(n) == [kind |-> "num", path |-> NoPath, gen |-> 0, num |-> n, str |-> ""]
BoolVal(b) == [kind |-> "bool", path |-> NoPath, gen |-> 0,
               num |-> IF b THEN 1 ELSE 0, str |-> ""]
StrVal(s) == [kind |-> "str", path |-> NoPath, gen |-> 0, num |-> 0, str |-> s]

Suffixes == <<"", "1", "2", "3", "4", "5">>

(* COMP.create gives the new operator the requested name, or the name with *)
(* a digit appended when a sibling already has it                          *)
UniqueName(nodes, parent, name) ==
    LET free == {k \in 1..Len(Suffixes) :
                    \A o \in nodes : o.path # Append(parent, name \o Suffixes[k])}
        k == CHOOSE i \in free : \A j \in free : i <= j
    IN name \o Suffixes[k]

Create(G, parent, type, name, gen) ==
    [G EXCEPT !.ops = @ \cup {[path |-> Append(parent, UniqueName(@, parent, name)),
                               type |-> type, gen |-> gen]}]

(* several create() calls on one parent, with different names *)
CreateAll(G, parent, specs, gen) ==
    [G EXCEPT !.ops = @ \cup {[path |-> Append(parent, UniqueName(@, parent, specs[k][2])),
                               type |-> specs[k][1], gen |-> gen] : k \in 1..Len(specs)}]

(* OP.destroy removes the operator, everything inside it, the connections *)
(* from and to what is removed, and what was stored on it                 *)
Destroy(G, p) ==
    [ops |-> {o \in G.ops : ~IsUnder(o.path, p)},
     inputs |-> {i \in G.inputs : ~IsUnder(i.dst, p) /\ ~IsUnder(i.src, p)},
     pars |-> {q \in G.pars : ~IsUnder(q.owner, p)},
     store |-> {s \in G.store : ~IsUnder(s.owner, p)},
     tables |-> {t \in G.tables : ~IsUnder(t.owner, p)}]

DestroyChildren(G, p) ==
    [ops |-> {o \in G.ops : o.path = p \/ ~IsUnder(o.path, p)},
     inputs |-> {i \in G.inputs : ~(IsUnder(i.dst, p) /\ i.dst # p)
                                  /\ ~(IsUnder(i.src, p) /\ i.src # p)},
     pars |-> {q \in G.pars : q.owner = p \/ ~IsUnder(q.owner, p)},
     store |-> {s \in G.store : s.owner = p \/ ~IsUnder(s.owner, p)},
     tables |-> {t \in G.tables : t.owner = p \/ ~IsUnder(t.owner, p)}]

(* op.inputs = [a, b, ...]; idx is the 0-based input index *)
SetInputs(G, dst, srcs) ==
    [G EXCEPT !.inputs = {i \in @ : i.dst # dst}
                 \cup {[dst |-> dst, idx |-> k - 1, src |-> srcs[k]] : k \in 1..Len(srcs)}]

(* op.par.<name> = value; refs are the operators the value refers to, or, *)
(* for a file parameter, the file path split at "/"                       *)
SetPar(G, owner, name, text, refs) ==
    [G EXCEPT !.pars = {q \in @ : ~(q.owner = owner /\ q.name = name)}
                 \cup {[owner |-> owner, name |-> name, text |-> text, refs |-> refs]}]

(* several assignments to parameters of one operator, in order: the last *)
(* assignment to a name is the one that stays                            *)
SetPars(G, owner, ps) ==
    LET last == {k \in 1..Len(ps) : \A j \in (k + 1)..Len(ps) : ps[j][1] # ps[k][1]}
    IN [G EXCEPT !.pars =
           {q \in @ : ~(q.owner = owner /\ \E k \in 1..Len(ps) : ps[k][1] = q.name)}
           \cup {[owner |-> owner, name |-> ps[k][1], text |-> ps[k][2],
                   refs |-> ps[k][3]] : k \in last}]

HasPar(G, owner, name) == \E q \in G.pars : q.owner = owner /\ q.name = name

ParOf(G, owner, name) == CHOOSE q \in G.pars : q.owner = owner /\ q.name = name

(* COMP.store(key, value) and COMP.fetch(key, default) *)
Store(G, owner, key, val) ==
    [G EXCEPT !.store = {s \in @ : ~(s.owner = owner /\ s.key = key)}
                 \cup {[owner |-> owner, key |-> key, val |-> val]}]

(* several store() calls on one component, in order *)
StoreAll(G, owner, kvs) ==
    LET last == {k \in 1..Len(kvs) : \A j \in (k + 1)..Len(kvs) : kvs[j][1] # kvs[k][1]}
    IN [G EXCEPT !.store =
           {s \in @ : ~(s.owner = owner /\ \E k \in 1..Len(kvs) : kvs[k][1] = s.key)}
           \cup {[owner |-> owner, key |-> kvs[k][1], val |-> kvs[k][2]] : k \in last}]

HasKey(G, owner, key) == \E s \in G.store : s.owner = owner /\ s.key = key

Fetch(G, owner, key, default) ==
    IF HasKey(G, owner, key)
    THEN (CHOOSE s \in G.store : s.owner = owner /\ s.key = key).val
    ELSE default

Keys(G, owner) == {s.key : s \in {t \in G.store : t.owner = owner}}

InputOf(G, dst, idx) == (CHOOSE i \in G.inputs : i.dst = dst /\ i.idx = idx).src

NoVal == [kind |-> "none", path |-> NoPath, gen |-> 0, num |-> 0, str |-> ""]

(* the operator reference a create() call of build number gen returned *)
Ref(p, gen) == OpVal(p, gen)

(* Below, CHOOSE r \in {F(v) : v \in {x}} : TRUE is F(x) with x worked out *)
(* once, however often F uses it.                                         *)

(* --------------------------- _build_controls --------------------------- *)

PromptRows ==
    << <<"key", "prompt">>,
       <<"base_prompt", "tower rites itself, brutalist scaffolding, decaying ritual architecture, archival newspaper ink bleeding, cinematic, dusk light">>,
       <<"alt_prompt", "tower rites itself, documentary fragments, analogue collage, machine hallucination, fractured lens bokeh">> >>

MasterNames ==
    << <<"name0", "feedback_mix", <<>> >>, <<"name1", "audio_drive", <<>> >>,
       <<"name2", "warp_amount", <<>> >>, <<"name3", "bloom", <<>> >>,
       <<"name4", "chromatic", <<>> >>, <<"name5", "glitch_gate", <<>> >>,
       <<"name6", "ai_blend", <<>> >>, <<"name7", "archive_blend", <<>> >>,
       <<"name8", "film_wear", <<>> >> >>

ModulationNames ==
    << <<"combinechans", "byindex", <<>> >>,
       <<"channame1", "feedback_mix", <<>> >>, <<"channame2", "audio_drive", <<>> >>,
       <<"channame3", "warp_amount", <<>> >>, <<"channame4", "bloom", <<>> >>,
       <<"channame5", "chromatic", <<>> >>, <<"channame6", "glitch_gate", <<>> >>,
       <<"channame7", "audio_env", <<>> >>, <<"channame8", "lfo_slow", <<>> >>,
       <<"channame9", "lfo_fast", <<>> >>, <<"channame10", "ai_blend", <<>> >>,
       <<"channame11", "archive_blend", <<>> >>, <<"channame12", "film_wear", <<>> >> >>

_build_controls(G, ctrl, gen) ==
    LET setup == Append(ctrl, "setup")
        master == Append(setup, "master")
        audio == Append(setup, "audio")
        audioIn == Append(setup, "audioIn")
        envelope == Append(setup, "envelope")
        lfo_slow == Append(setup, "lfoSlow")
        lfo_fast == Append(setup, "lfoFast")
        merge == Append(setup, "modulation")
        prompts == Append(setup, "prompts")
        G1 == Create(DestroyChildren(G, ctrl), ctrl, "baseCOMP", "setup", gen)
        G2 == CreateAll(G1, setup,
                  << <<"constantCHOP", "master">>, <<"nullCHOP", "audio">>,
                     <<"audioDeviceInCHOP", "audioIn">>, <<"filterCHOP", "envelope">>,
                     <<"lfoCHOP", "lfoSlow">>, <<"lfoCHOP", "lfoFast">>,
                     <<"mathCHOP", "modulation">>, <<"tableDAT", "prompts">> >>, gen)
        G3 == SetPars(G2, master, MasterNames)
        G4 == SetInputs(SetInputs(SetInputs(G3, audio, <<audioIn>>),
                                  envelope, <<audio>>),
                        merge, <<master, envelope, lfo_slow, lfo_fast>>)
        G5 == SetPars(G4, merge, ModulationNames)
        G6 == [G5 EXCEPT !.tables = {t \in @ : t.owner # prompts}
                                     \cup {[owner |-> prompts, rows |-> PromptRows]}]
    IN StoreAll(G6, ctrl,
           << <<"prompts", Ref(prompts, gen)>>, <<"master", Ref(master, gen)>>,
              <<"audio", Ref(audio, gen)>>, <<"envelope", Ref(envelope, gen)>>,
              <<"lfo_slow", Ref(lfo_slow, gen)>>, <<"lfo_fast", Ref(lfo_fast, gen)>>,
              <<"modulation", Ref(merge, gen)>> >>)

(* ------------------------- _build_ai_generator ------------------------- *)

(* generated.par.file = "./media/generated/latest.png", split at "/" *)
GENERATED_FILE == <<".", "media", "generated", "latest.png">>

ENDPOINT == "http://127.0.0.1:7860/sdapi/v1/img2img"

(* ai.store("interval", 8.0), in seconds *)
DEFAULT_INTERVAL == 8

AiComp(vis) == Append(vis, "aiGenerator")

_build_ai_generator(G0, vis, controls, gen) ==
    CHOOSE r \in {
    LET ai == AiComp(vis)
        generated == Append(ai, "generated")
        null_out == Append(ai, "out")
        driver == Append(ai, "driver")
        driver_exec == Append(ai, "driverExec")
        modulation == Fetch(G, controls, "modulation", NoVal)
        prompts == Fetch(G, controls, "prompts", NoVal)
        G1 == DestroyChildren(Create(G, vis, "baseCOMP", "aiGenerator", gen), ai)
        G2 == CreateAll(G1, ai,
                  << <<"moviefileinTOP", "generated">>, <<"nullTOP", "out">>,
                     <<"textDAT", "driver">>, <<"datExecuteDAT", "driverExec">> >>, gen)
        G3 == SetPars(G2, generated,
                  << <<"file", "./media/generated/latest.png", <<GENERATED_FILE>> >>, <<"reload", "True", <<>> >>,
                     <<"play", "False", <<>> >> >>)
        G4 == SetInputs(G3, null_out, <<generated>>)
        G5 == SetPar(G4, driver, "text", "AI_DRIVER_SCRIPT", <<>>)
        G6 == SetPars(G5, driver_exec,
                  << <<"dat", "{}", <<driver>> >>, <<"frame", "True", <<>> >>,
                     <<"active", "True", <<>> >> >>)
    IN [graph |-> StoreAll(G6, ai,
                    << <<"audio_chop_path", PathVal(modulation.path)>>,
                       <<"feedback_chop_path", PathVal(modulation.path)>>,
                       <<"prompt_table", PathVal(prompts.path)>>,
                       <<"generated_top", PathVal(generated)>>,
                       <<"last_prompt_index", NumVal(0)>>,
                       <<"prompt_seed", NumVal(0)>>,
                       <<"enabled", BoolVal(TRUE)>>,
                       <<"endpoint", StrVal(ENDPOINT)>>,
                       <<"interval", NumVal(DEFAULT_INTERVAL)>> >>),
        out |-> null_out]
    : G \in {G0}} : TRUE

(* ----------------------- _wire_visual_parameters ----------------------- *)

_wire_visual_parameters(G0, vis, controls) ==
    CHOOSE r \in {
    LET mods == Fetch(G, controls, "modulation", NoVal).path
        master == Fetch(G, controls, "master", NoVal).path
        feedback == Fetch(G, vis, "feedback", NoVal).path
        transform == Fetch(G, vis, "transform", NoVal).path
        comp == Fetch(G, vis, "composite", NoVal).path
        glitch == Fetch(G, vis, "glitch", NoVal).path
        bloom == Fetch(G, vis, "bloom", NoVal).path
        chroma == Fetch(G, vis, "chromatic", NoVal).path
        film == Fetch(G, vis, "film", NoVal).path
        ai_cross == Fetch(G, vis, "ai_cross", NoVal).path
        archive_cross == Fetch(G, vis, "archival_cross", NoVal).path
        archival_mix == Fetch(G, vis, "archival_mix", NoVal).path
        glitch_pattern == InputOf(G, glitch, 1)
        G1 == SetPar(G, feedback, "feedback", "op('{}')['feedback_mix']", <<master>>)
        G2 == SetPars(G1, transform,
                  << <<"rotate", "0.06 + op('{}')['warp_amount'] * 12", <<mods>> >>,
                     <<"scale", "1.002 + op('{}')['feedback_mix'] * 0.02", <<master>> >>,
                     <<"tx", "-0.004 + op('{}')['lfo_slow'] * 0.01", <<mods>> >>,
                     <<"ty", "-0.002 + op('{}')['lfo_fast'] * 0.015", <<mods>> >> >>)
        G3 == SetPar(G2, comp, "preadd", "0.25 + op('{}')['audio_env'] * 0.45", <<mods>>)
        G4 == SetPar(G3, glitch_pattern, "seed", "absTime.frame", <<>>)
        G5 == SetPar(G4, glitch, "index", "0.35 + op('{}')['glitch_gate'] * 0.4", <<master>>)
        G6 == SetPars(G5, bloom,
                  << <<"multiadd", "0.4 + op('{}')['bloom'] * 1.6", <<master>> >>,
                     <<"multimult", "0.6 + op('{}')['audio_drive'] * 0.5", <<mods>> >> >>)
        G7 == SetPars(G6, chroma,
                  << <<"pixelcode", "CHROMA_GLSL", <<>> >>,
                     <<"par1", "op('{}')['chromatic']", <<master>> >>,
                     <<"par2", "op('{}')['audio_env']", <<mods>> >> >>)
        G8 == SetPar(G7, ai_cross, "blend", "clamp(op('{}')['ai_blend'], 0, 1)", <<master>>)
        G9 == SetPar(G8, archive_cross, "blend",
                  "clamp(op('{}')['archive_blend'] + op('{}')['audio_env'] * 0.25, 0, 1)",
                  <<master, mods>>)
        G10 == SetPar(G9, archival_mix, "blend",
                  "clamp(0.35 + op('{}')['lfo_slow'] * 0.3, 0, 1)", <<mods>>)
    IN SetPars(G10, film,
           << <<"pixelcode", "FILM_GLSL", <<>> >>,
              <<"par1", "op('{}')['film_wear']", <<master>> >>,
              <<"par2", "op('{}')['audio_env']", <<mods>> >> >>)
    : G \in {G0}} : TRUE

(* ---------------------------- _build_visuals --------------------------- *)

_build_visuals(G, vis, controls, gen) ==
    CHOOSE r \in {
    LET ai_output == built.out
        archival_video == Append(vis, "archivalVideo")
        archival_still == Append(vis, "archivalStill")
        archival_mix == Append(vis, "archivalMix")
        ramp == Append(vis, "heightRamp")
        noise == Append(vis, "foundationNoise")
        level == Append(vis, "foundationLevel")
        displace == Append(vis, "displaceTower")
        feedback == Append(vis, "feedback")
        xform == Append(vis, "feedbackTransform")
        comp == Append(vis, "feedbackComposite")
        ai_cross == Append(vis, "aiCross")
        archive_cross == Append(vis, "archiveCross")
        glitch_switch == Append(vis, "glitchSwitch")
        glitch == Append(vis, "glitch")
        glitch_op == Append(vis, "glitchPattern")
        bloom == Append(vis, "bloom")
        chroma == Append(vis, "chromaticOffset")
        film == Append(vis, "filmTexture")
        G1 == CreateAll(built.graph, vis,
                  << <<"moviefileinTOP", "archivalVideo">>, <<"moviefileinTOP", "archivalStill">>,
                     <<"crossTOP", "archivalMix">>, <<"rampTOP", "heightRamp">>,
                     <<"noiseTOP", "foundationNoise">>, <<"levelTOP", "foundationLevel">>,
                     <<"displaceTOP", "displaceTower">>, <<"feedbackTOP", "feedback">>,
                     <<"transformTOP", "feedbackTransform">>,
                     <<"compositeTOP", "feedbackComposite">>, <<"crossTOP", "aiCross">>,
                     <<"crossTOP", "archiveCross">>, <<"levelTOP", "glitchSwitch">>,
                     <<"lookupTOP", "glitch">>, <<"noiseTOP", "glitchPattern">>,
                     <<"glslTOP", "bloom">>, <<"glslTOP", "chromaticOffset">>,
                     <<"glslTOP", "filmTexture">> >>, gen)
        G2 == SetPars(G1, archival_video,
                  << <<"file", "./media/archival/tower_press_video.mp4",
                        << <<".", "media", "archival", "tower_press_video.mp4">> >> >>,
                     <<"reload", "True", <<>> >>, <<"play", "True", <<>> >>,
                     <<"loop", "True", <<>> >> >>)
        G3 == SetPars(G2, archival_still,
                  << <<"file", "./media/archival/tower_press_still.jpg",
                        << <<".", "media", "archival", "tower_press_still.jpg">> >> >>,
                     <<"reload", "True", <<>> >>, <<"play", "False", <<>> >> >>)
        G4 == SetInputs(G3, archival_mix, <<archival_video, archival_still>>)
        G5 == SetInputs(G4, level, <<noise>>)
        G6 == SetInputs(G5, displace, <<ramp, level>>)
        G7 == SetInputs(G6, feedback, <<displace>>)
        G8 == SetPars(SetInputs(G7, xform, <<feedback>>), xform,
                  << <<"rotate", "0.15", <<>> >>, <<"scale", "1.006", <<>> >>,
                     <<"tx", "0.001", <<>> >>, <<"ty", "-0.002", <<>> >> >>)
        G9 == SetPars(SetInputs(G8, comp, <<displace, xform>>), comp,
                  << <<"op", "add", <<>> >>, <<"preadd", "0.4", <<>> >> >>)
        G10 == SetPar(SetInputs(G9, ai_cross, <<comp, ai_output>>), ai_cross,
                   "blend", "0.2", <<>>)
        G11 == SetPar(SetInputs(G10, archive_cross, <<ai_cross, archival_mix>>),
                   archive_cross, "blend", "0.3", <<>>)
        G12 == SetInputs(G11, glitch_switch, <<archive_cross>>)
        G13 == SetPar(SetInputs(G12, glitch, <<glitch_switch, glitch_op>>), glitch,
                   "index", "0.4", <<>>)
        G14 == SetPars(SetInputs(G13, bloom, <<glitch>>), bloom,
                   << <<"pixelcode", "BLOOM_GLSL", <<>> >>,
                      <<"resolutionmenu", "frominput", <<>> >> >>)
        G15 == SetPars(SetInputs(G14, chroma, <<bloom>>), chroma,
                   << <<"pixelcode", "CHROMA_GLSL", <<>> >>,
                      <<"resolutionmenu", "frominput", <<>> >> >>)
        G16 == SetPars(SetInputs(G15, film, <<chroma>>), film,
                   << <<"pixelcode", "FILM_GLSL", <<>> >>,
                      <<"resolutionmenu", "frominput", <<>> >> >>)
        G17 == StoreAll(G16, vis,
                   << <<"ramp", Ref(ramp, gen)>>, <<"noise", Ref(noise, gen)>>,
                      <<"level", Ref(level, gen)>>, <<"displace", Ref(displace, gen)>>,
                      <<"feedback", Ref(feedback, gen)>>, <<"transform", Ref(xform, gen)>>,
                      <<"composite", Ref(comp, gen)>>, <<"ai_cross", Ref(ai_cross, gen)>>,
                      <<"archival_cross", Ref(archive_cross, gen)>>,
                      <<"glitch", Ref(glitch, gen)>>, <<"bloom", Ref(bloom, gen)>>,
                      <<"chromatic", Ref(chroma, gen)>>, <<"film", Ref(film, gen)>>,
                      <<"archival_mix", Ref(archival_mix, gen)>>,
                      <<"archival_video", Ref(archival_video, gen)>>,
                      <<"archival_still", Ref(archival_still, gen)>>,
                      <<"ai_output", Ref(ai_output, gen)>> >>)
    IN _wire_visual_parameters(G17, vis, controls)
    : built \in {_build_ai_generator(DestroyChildren(G, vis), vis, controls, gen)}} : TRUE

(* ----------------------------- _build_output --------------------------- *)

_build_output(G, out, visuals, gen) ==
    LET viewer == Append(out, "final")
        levels == Append(out, "displayLevel")
        G1 == CreateAll(DestroyChildren(G, out), out,
                  << <<"nullTOP", "final">>, <<"levelTOP", "displayLevel">> >>, gen)
        G2 == CHOOSE r \in {SetInputs(g, viewer, <<Fetch(g, visuals, "film", NoVal).path>>)
                                : g \in {G1}} : TRUE
        G3 == SetInputs(G2, levels, <<viewer>>)
    IN Store(G3, out, "output", Ref(levels, gen))

(* --------------------------------- build ------------------------------- *)

TOWER == "towerRites"
BUILD_VERSION == "2024-06-20"

(* build without lines 57-59: the existing towerRites is left in place *)
DestroyExisting_Skipped(G, root) == G

(* existing = root.op("towerRites"); if existing is not None: existing.destroy() *)
DestroyExisting(G, root) ==
    IF Exists(G, Append(root, TOWER)) THEN Destroy(G, Append(root, TOWER)) ELSE G

(* lines 81-83 with the visuals shortcut pointing at the output container *)
TowerKeys_Swapped(controls, visuals, output, gen) ==
    << <<"controls", Ref(controls, gen)>>, <<"visuals", Ref(output, gen)>>,
       <<"output", Ref(output, gen)>>, <<"build_version", StrVal(BUILD_VERSION)>> >>

(* tower.store("controls", controls) ... tower.store("build_version", ...) *)
TowerKeys(controls, visuals, output, gen) ==
    << <<"controls", Ref(controls, gen)>>, <<"visuals", Ref(visuals, gen)>>,
       <<"output", Ref(output, gen)>>, <<"build_version", StrVal(BUILD_VERSION)>> >>

(* lines 51-52 without the test of root: /project1 is always looked up *)
ResolveRoot_AlwaysDefault(G, root) ==
    [root |-> IF Exists(G, PROJECT1) THEN PROJECT1 ELSE NoPath, lookedUp |-> TRUE]

(* root = op("/project1") when root is None (NoPath here); a root of NoPath *)
(* in the result is the RuntimeError                                       *)
ResolveRoot(G, root) ==
    IF root = NoPath
    THEN [root |-> IF Exists(G, PROJECT1) THEN PROJECT1 ELSE NoPath, lookedUp |-> TRUE]
    ELSE [root |-> root, lookedUp |-> FALSE]

(* lines 61-86: the new container under the name create() gave it *)
BuildTower(G, tower, root, gen) ==
    LET G1 == Create(G, root, "containerCOMP", TOWER, gen)
        G2 == SetPars(G1, tower,
                  << <<"alignorder", "lrbt", <<>> >>, <<"align", "True", <<>> >>,
                     <<"alignhorz", "left", <<>> >>, <<"alignvert", "top", <<>> >>,
                     <<"display", "True", <<>> >> >>)
        controls == Append(tower, "controls")
        visuals == Append(tower, "visuals")
        output == Append(tower, "output")
        G3 == CreateAll(G2, tower,
                  << <<"baseCOMP", "controls">>, <<"containerCOMP", "visuals">>,
                     <<"containerCOMP", "output">> >>, gen)
        G4 == _build_controls(G3, controls, gen)
        G5 == _build_visuals(G4, visuals, controls, gen)
        G6 == _build_output(G5, output, visuals, gen)
        G7 == StoreAll(G6, tower, TowerKeys(controls, visuals, output, gen))
    IN [graph |-> G7, tower |-> tower]

(* the body of build once root is resolved; gen is the serial of this call *)
build(G, root, gen) ==
    CHOOSE r \in {BuildTower(G0, Append(root, UniqueName(G0.ops, root, TOWER)), root, gen)
                      : G0 \in {DestroyExisting(G, root)}} : TRUE

(* --------------------------- AI_DRIVER_SCRIPT -------------------------- *)

(* MEDIA_NAME = os.path.join('media', 'generated', 'latest.png') *)
MEDIA_NAME == <<"media", "generated", "latest.png">>

(* project.folder *)
ProjectFolder == <<"home", "show">>

(* line 429 joining another file name *)
_ensure_media_path_Other(project_folder) ==
    project_folder \o <<"media", "generated", "latest.jpg">>

(* path = os.path.join(project_folder, MEDIA_NAME) *)
_ensure_media_path(project_folder) == project_folder \o MEDIA_NAME

(* the host opens a relative file parameter relative to the project folder *)
ResolveFile(project_folder, segs) ==
    IF segs # <<>> /\ segs[1] = "."
    THEN project_folder \o SelectSeq(segs, LAMBDA x : x # ".")
    ELSE segs

HasFile(F, path) == \E f \in F : f.path = path

FileAt(F, path) == CHOOSE f \in F : f.path = path

(* a file is its path, its size, who wrote it last and whether that write *)
(* ran to the end                                                        *)
WriteFile(F, path, by, bytes, complete) ==
    {f \in F : f.path # path}
        \cup {[path |-> path, by |-> by, bytes |-> bytes, complete |-> complete]}

Max(a, b) == IF a >= b THEN a ELSE b

MIN_INTERVAL == 2
AUDIO_SPIKE == 4

(* max(0.0, float(chan[0])), 0.0 when the CHOP is missing or the read fails *)
_fetch_audio(G, comp, env) ==
    LET audio_path == Fetch(G, comp, "audio_chop_path", PathVal(NoPath)).path
    IN IF audio_path = NoPath \/ ~Exists(G, audio_path) THEN 0
       ELSE IF ~env.audioOk THEN 0
       ELSE Max(0, env.audio)

_fetch_feedback(G, comp, env) ==
    LET fb_path == Fetch(G, comp, "feedback_chop_path", PathVal(NoPath)).path
    IN IF fb_path = NoPath \/ ~Exists(G, fb_path) THEN 0
       ELSE IF ~env.audioOk THEN 0
       ELSE Max(0, env.feedback)

DEFAULT_PROMPT == "tower rites itself, analogue dream"

RECURSIVE PromptsOf(_)
PromptsOf(rows) ==
    IF rows = <<>> THEN <<>>
    ELSE IF Len(rows[1]) < 2 \/ rows[1][1] = "key" THEN PromptsOf(Tail(rows))
    ELSE <<rows[1][2]>> \o PromptsOf(Tail(rows))

_build_prompt(G, comp, env) ==
    LET table_path == Fetch(G, comp, "prompt_table", PathVal(NoPath)).path
        found == table_path # NoPath /\ \E t \in G.tables : t.owner = table_path
        prompts == PromptsOf((CHOOSE t \in G.tables : t.owner = table_path).rows)
        fetched == Fetch(G, comp, "last_prompt_index", NumVal(0)).num
        last_index == IF fetched >= Len(prompts) THEN 0 ELSE fetched
        audio == _fetch_audio(G, comp, env)
        index == IF audio >= AUDIO_SPIKE THEN (last_index + 1) % Len(prompts)
                 ELSE last_index
    IN IF ~found THEN [graph |-> G, prompt |-> DEFAULT_PROMPT]
       ELSE IF prompts = <<>> THEN [graph |-> G, prompt |-> DEFAULT_PROMPT]
       ELSE [graph |-> Store(G, comp, "last_prompt_index", NumVal(index)),
             prompt |-> prompts[index + 1]]

INIT_NAME == <<"media", "generated", "init_source.png">>

(* source.save(target_path) then read back; None when there is no source *)
(* or the save fails                                                     *)
_grab_archival_frame(G, F, comp, target_path, env) ==
    LET parent_comp == Parent(comp)
        archive_top == Fetch(G, parent_comp, "archival_video", NoVal)
        still_top == Fetch(G, parent_comp, "archival_still", NoVal)
        source == IF archive_top # NoVal THEN archive_top ELSE still_top
    IN IF source = NoVal THEN [fs |-> F, image |-> FALSE]
       ELSE IF ~env.saveOk THEN [fs |-> F, image |-> FALSE]
       ELSE [fs |-> WriteFile(F, target_path, "save", 1, TRUE), image |-> TRUE]

(* ---- the HTTP response, as far as the script looks into it ---- *)

(* a string is a sequence of tokens: "data:" the five-character prefix,  *)
(* "," a comma, "A" a character of the base64 alphabet, "!" one outside  *)
StartsWithData(str) == str # <<>> /\ str[1] = "data:"

HasComma(str) == \E i \in 1..Len(str) : str[i] = ","

(* encoded.split(',', 1)[1] *)
AfterComma(str) ==
    LET i == CHOOSE k \in 1..Len(str) : str[k] = "," /\ \A j \in 1..(k - 1) : str[j] # ","
    IN SubSeq(str, i + 1, Len(str))

RECURSIVE DataChars(_)
DataChars(str) ==
    IF str = <<>> THEN 0
    ELSE (IF str[1] = "A" THEN 1 ELSE IF str[1] = "data:" THEN 4 ELSE 0)
         + DataChars(Tail(str))

(* base64.b64decode(encoded): characters outside the alphabet are dropped, *)
(* the rest must come in groups of four                                   *)
B64Valid(str) == DataChars(str) % 4 = 0

B64Bytes(str) == (DataChars(str) \div 4) * 3

NoStr == <<>>

Item(type, text) == [type |-> type, text |-> text]

(* the value of data.get('images') *)
Images(type, items, text) == [type |-> type, items |-> items, text |-> text]

Response(transport, status, json, top, images) ==
    [transport |-> transport, status |-> status, json |-> json, top |-> top,
     images |-> images]

NoImages == Images("absent", <<>>, NoStr)

ImageValues ==
    { NoImages,
      Images("list", <<>>, NoStr),
      Images("list", <<Item("str", <<"A", "A", "A", "A">>)>>, NoStr),
      Images("list", <<Item("str", <<"data:", ",", "A", "A", "A", "A">>)>>, NoStr),
      Images("list", <<Item("str", <<"data:", "A", "A", "A", "A">>)>>, NoStr),
      Images("list", <<Item("str", <<"A">>)>>, NoStr),
      Images("list", <<Item("num", NoStr)>>, NoStr),
      Images("str", <<>>, <<"!">>),
      Images("str", <<>>, <<"A", "A">>),
      Images("num", <<>>, NoStr),
      Images("dict", <<>>, NoStr) }

Responses ==
    { Response(FALSE, 0, FALSE, "none", NoImages),
      Response(TRUE, 500, TRUE, "dict", NoImages),
      Response(TRUE, 500, TRUE, "dict",
          Images("list", <<Item("str", <<"A", "A", "A", "A">>)>>, NoStr)),
      Response(TRUE, 200, FALSE, "none", NoImages),
      Response(TRUE, 200, TRUE, "list", NoImages) }
    \cup { Response(TRUE, 200, TRUE, "dict", im) : im \in ImageValues }

(* lines 552-553 without raise_for_status() *)
RequestOk_NoStatus(resp) == resp.transport

(* requests.post(...) returned and raise_for_status() passed *)
RequestOk(resp) == resp.transport /\ resp.status < 400

(* `not images`: None, [], "", 0 and {} are falsy; "num" is a non-zero number *)
(* and "dict" a non-empty object                                            *)
Truthy(images) ==
    CASE images.type = "list" -> images.items # <<>>
      [] images.type = "str" -> images.text # <<>>
      [] images.type = "num" -> TRUE
      [] images.type = "dict" -> TRUE
      [] OTHER -> FALSE

(* images[0] raises on a number and on an object (whose keys are strings) *)
CanIndex(images) == images.type \in {"list", "str"}

(* images[0]: the first item of a list, the first character of a string *)
First(images) ==
    IF images.type = "list" THEN images.items[1]
    ELSE Item("str", <<images.text[1]>>)

(* what the latest step did when it was an invocation of onFrameStart *)
(* (observation only; returned = "none" after any other step)         *)
NoFrame ==
    [comp |-> NoPath, audio |-> 0, requested |-> FALSE,
     resp |-> Response(FALSE, 0, FALSE, "none", NoImages),
     returned |-> "none", stored |-> FALSE, opened |-> FALSE, completed |-> FALSE,
     target |-> NoPath, write |-> "none", pulsed |-> FALSE, pulsedOp |-> NoPath]

FrameResult(G, F, log) == [graph |-> G, fs |-> F, log |-> log]

(* the part of onFrameStart after the request succeeded (lines 559-585) *)
HandleResponse(G, F, comp, t, env, log, target_path) ==
    LET resp == env.resp
        images == IF resp.top = "dict" THEN resp.images ELSE NoImages
        raised == FrameResult(G, F, [log EXCEPT !.returned = "raised"])
        Gs == Store(G, comp, "last_update", NumVal(t))
        done == [log EXCEPT !.stored = TRUE]
        item == First(images)
        encoded == IF StartsWithData(item.text) THEN AfterComma(item.text) ELSE item.text
        generated_path == Fetch(G, comp, "generated_top", PathVal(NoPath)).path
        canPulse == generated_path # NoPath /\ Exists(G, generated_path) /\ env.pulseOk
        opened == [done EXCEPT !.opened = TRUE, !.target = target_path, !.write = env.write]
    IN IF ~resp.json THEN raised
       ELSE IF ~Truthy(images) THEN FrameResult(Gs, F, done)
       ELSE IF ~CanIndex(images) THEN raised
       ELSE IF item.type # "str" THEN raised
       ELSE IF StartsWithData(item.text) /\ ~HasComma(item.text) THEN raised
       ELSE IF env.write = "open_fails"
            THEN FrameResult(Gs, F, [done EXCEPT !.write = env.write])
       ELSE IF ~B64Valid(encoded) \/ env.write = "write_fails"
            THEN FrameResult(Gs, WriteFile(F, target_path, "driver", 0, FALSE), opened)
       ELSE FrameResult(Gs, WriteFile(F, target_path, "driver", B64Bytes(encoded), TRUE),
                [opened EXCEPT !.completed = TRUE, !.pulsed = canPulse,
                               !.pulsedOp = IF canPulse THEN generated_path ELSE NoPath])

onFrameStart(G, F, comp, t, env) ==
    LET enabled == Fetch(G, comp, "enabled", BoolVal(TRUE)).num # 0
        base_interval == Fetch(G, comp, "interval", NumVal(DEFAULT_INTERVAL)).num
        audio_env == _fetch_audio(G, comp, env)
        effective_interval == Max(MIN_INTERVAL, base_interval - audio_env)
        last_update == Fetch(G, comp, "last_update", NumVal(0)).num
        endpoint == Fetch(G, comp, "endpoint", StrVal("")).str
        log == [NoFrame EXCEPT !.comp = comp, !.audio = audio_env, !.returned = "normal"]
        P == _build_prompt(G, comp, env)
        target_path == _ensure_media_path(ProjectFolder)
        init_path == ProjectFolder \o INIT_NAME
        A == _grab_archival_frame(P.graph, F, comp, init_path, env)
        asked == [log EXCEPT !.requested = TRUE, !.resp = env.resp]
    IN IF ~enabled THEN FrameResult(G, F, log)
       ELSE IF t - last_update < effective_interval THEN FrameResult(G, F, log)
       ELSE IF endpoint = "" THEN FrameResult(G, F, log)
       ELSE IF ~RequestOk(env.resp)
            THEN FrameResult(Store(P.graph, comp, "last_update", NumVal(t)), A.fs,
                     [asked EXCEPT !.stored = TRUE])
       ELSE HandleResponse(P.graph, A.fs, comp, t, env, asked, target_path)

(* ------------------------------ environment ---------------------------- *)

StartTime == 10

(* channel values, in units of 2/9 *)
AudioLevels == {-1, 1, 5}

Intervals == {3, DEFAULT_INTERVAL}

Env(audio, audioOk, saveOk, resp, write, pulseOk) ==
    [audio |-> audio, audioOk |-> audioOk, feedback |-> 0, saveOk |-> saveOk,
     resp |-> resp, write |-> write, pulseOk |-> pulseOk]

GoodResponse ==
    Response(TRUE, 200, TRUE, "dict",
        Images("list", <<Item("str", <<"A", "A", "A", "A">>)>>, NoStr))

(* every response with every audio level; the failures of the file system *)
(* and of the host where the script reaches them                         *)
Envs ==
    { Env(a, TRUE, TRUE, r, "ok", TRUE) : a \in AudioLevels, r \in Responses }
    \cup { Env(1, TRUE, TRUE, GoodResponse, w, TRUE) : w \in {"open_fails", "write_fails"} }
    \cup { Env(1, TRUE, TRUE, GoodResponse, "ok", FALSE),
           Env(1, TRUE, FALSE, GoodResponse, "ok", TRUE),
           Env(5, FALSE, TRUE, GoodResponse, "ok", TRUE) }

(* the few the build specification runs the callback with *)
BuildEnvs ==
    { Env(5, TRUE, TRUE, GoodResponse, "ok", TRUE),
      Env(-1, TRUE, TRUE, Response(FALSE, 0, FALSE, "none", NoImages), "ok", TRUE) }

(* what the latest call of build did (observation only): arg is the root *)
(* passed (NoPath when omitted), root the root used, existedGen the     *)
(* generation of the towerRites found under it (-1 when none)           *)
NoBuild ==
    [arg |-> NoPath, root |-> NoPath, explicit |-> FALSE, lookedUp |-> FALSE, raised |-> FALSE,
     tower |-> NoPath, gen |-> -1, existedGen |-> -1]

TargetFile == ProjectFolder \o <<"media", "generated", "latest.png">>

HostFile == [path |-> TargetFile, by |-> "host", bytes |-> 3, complete |-> TRUE]

RootOp(r) == [path |-> r, type |-> "containerCOMP", gen |-> 0]

EmptyGraph(R) ==
    [ops |-> {RootOp(r) : r \in R}, inputs |-> {}, pars |-> {}, store |-> {},
     tables |-> {}]

SetGraphNow(G) ==
    /\ ops = G.ops
    /\ inputs = G.inputs
    /\ pars = G.pars
    /\ store = G.store
    /\ tables = G.tables

SetGraph(G) ==
    /\ ops' = G.ops
    /\ inputs' = G.inputs
    /\ pars' = G.pars
    /\ store' = G.store
    /\ tables' = G.tables

(* a project with or without /project1, nothing built yet *)
Init ==
    /\ \E R \in {Roots, {STAGE}} :
         /\ ops = EmptyGraph(R).ops
         /\ inputs = {}
         /\ pars = {}
         /\ store = {}
         /\ tables = {}
    /\ nextGen = 1
    /\ lastBuild = NoBuild
    /\ now = StartTime
    /\ fs \in {{}, {HostFile}}
    /\ lastFrame = NoFrame
    /\ lastReq = [r \in Roots |-> -1]

(* one call of build; root = NoPath is build() with root omitted *)
Build(root) ==
    /\ nextGen <= MaxBuilds
    /\ LET R == ResolveRoot(Graph, root)
           B == build(Graph, R.root, nextGen)
       IN IF R.root = NoPath
          THEN /\ UNCHANGED graphVars
               /\ lastBuild' = [NoBuild EXCEPT !.arg = root, !.explicit = root # NoPath,
                                               !.lookedUp = R.lookedUp, !.raised = TRUE]
               /\ UNCHANGED lastReq
          ELSE /\ SetGraph(B.graph)
               /\ lastBuild' = [arg |-> root, root |-> R.root, explicit |-> root # NoPath,
                                lookedUp |-> R.lookedUp, raised |-> FALSE,
                                tower |-> B.tower, gen |-> nextGen,
                                existedGen |-> GenOf(Graph, Append(R.root, TOWER))]
               /\ lastReq' = [lastReq EXCEPT ![R.root] = -1]
    /\ nextGen' = nextGen + 1
    /\ lastFrame' = NoFrame
    /\ UNCHANGED <<now, fs>>

(* build(root) with an explicit root COMP *)
BuildExplicit(root) == Exists(Graph, root) /\ Build(root)

(* build() with root omitted *)
BuildDefault == Build(NoPath)

DriverExec(root) == root \o <<TOWER, "visuals", "aiGenerator", "driverExec">>

(* the host calls onFrameStart of an active DAT Execute whose DAT is set; *)
(* me is that DAT, comp = me.parent()                                    *)
Frame(root, envs) ==
    /\ Exists(Graph, DriverExec(root))
    /\ HasPar(Graph, DriverExec(root), "active")
    /\ HasPar(Graph, DriverExec(root), "dat")
    /\ \E env \in envs :
         LET comp == Parent(ParOf(Graph, DriverExec(root), "dat").refs[1])
             R == onFrameStart(Graph, fs, comp, now, env)
         IN /\ SetGraph(R.graph)
            /\ fs' = R.fs
            /\ lastFrame' = R.log
            /\ lastReq' = IF R.log.requested THEN [lastReq EXCEPT ![root] = now]
                          ELSE lastReq
    /\ UNCHANGED <<nextGen, lastBuild, now>>

(* the operator edits what build stored on aiGenerator *)
Configure(root) ==
    LET comp == AiComp(root \o <<TOWER, "visuals">>)
    IN /\ Exists(Graph, comp)
       /\ \E kv \in {<<"interval", NumVal(iv)>> : iv \in Intervals}
                    \cup {<<"enabled", BoolVal(en)>> : en \in BOOLEAN}
                    \cup {<<"endpoint", StrVal(ep)>> : ep \in {"", ENDPOINT}} :
            SetGraph(Store(Graph, comp, kv[1], kv[2]))
       /\ lastFrame' = NoFrame
       /\ UNCHANGED <<nextGen, lastBuild, now, fs, lastReq>>

(* time.time() moves on *)
Tick ==
    /\ now < StartTime + MaxNow
    /\ now' = now + 1
    /\ lastFrame' = NoFrame
    /\ UNCHANGED <<graphVars, nextGen, lastBuild, fs, lastReq>>

(* building and rebuilding under the roots, the callback running in between *)
Next ==
    \/ \E root \in Roots : BuildExplicit(root)
    \/ BuildDefault
    \/ \E root \in Roots : Frame(root, BuildEnvs)
    \/ Tick

Spec == Init /\ [][Next]_vars

(* the callback of the network that build() made under /project1 *)
InitDriver ==
    /\ SetGraphNow(build(EmptyGraph(Roots), PROJECT1, 1).graph)
    /\ nextGen = 2
    /\ lastBuild = NoBuild
    /\ now = StartTime
    /\ fs = {HostFile}
    /\ lastFrame = NoFrame
    /\ lastReq = [r \in Roots |-> -1]

NextDriver ==
    \/ Frame(PROJECT1, Envs)
    \/ Configure(PROJECT1)
    \/ Tick

SpecDriver == InitDriver /\ [][NextDriver]_vars

(* ------------------------------ properties ----------------------------- *)

GraphNext == [ops |-> ops', inputs |-> inputs', pars |-> pars', store |-> store',
              tables |-> tables']

(* everything of the graph that lies inside root *)
Under(G, root) ==
    [ops |-> {o \in G.ops : IsUnder(o.path, root) /\ o.path # root},
     inputs |-> {i \in G.inputs : IsUnder(i.dst, root) /\ i.dst # root},
     pars |-> {q \in G.pars : IsUnder(q.owner, root) /\ q.owner # root},
     store |-> {s \in G.store : IsUnder(s.owner, root) /\ s.owner # root},
     tables |-> {t \in G.tables : IsUnder(t.owner, root) /\ t.owner # root}]

(* everything of the graph that does not lie inside root *)
Outside(G, root) ==
    [ops |-> G.ops \ Under(G, root).ops,
     inputs |-> G.inputs \ Under(G, root).inputs,
     pars |-> G.pars \ Under(G, root).pars,
     store |-> G.store \ Under(G, root).store,
     tables |-> G.tables \ Under(G, root).tables]

NodeSet(G) == {<<o.path, o.type>> : o \in G.ops}

StoredKeys(G) == {<<s.owner, s.key>> : s \in G.store}

TowerNames == {TOWER \o Suffixes[k] : k \in 1..Len(Suffixes)}

TowerChildren(G, root) ==
    {o \in Children(G, root) : o.path[Len(o.path)] \in TowerNames}

IsBuildStep == nextGen' = nextGen + 1

(* a single build(root) on a root that holds nothing *)
SingleBuild(root) == Under(build(EmptyGraph({root}), root, 1).graph, root)

(* C1: after every build(root) that follows any number of earlier builds and  *)
(* callback invocations, root has exactly one towerRites child, and the node  *)
(* set, the input connections and the stored keys under root are those of a   *)
(* single build(root)                                                         *)
C1_BuildIdempotent ==
    [][(IsBuildStep /\ ~lastBuild'.raised) =>
          LET root == lastBuild'.root
              after == Under(GraphNext, root)
          IN /\ Cardinality(TowerChildren(GraphNext, root)) = 1
             /\ Exists(GraphNext, Append(root, TOWER))
             /\ NodeSet(after) = NodeSet(SingleBuild(root))
             /\ after.inputs = SingleBuild(root).inputs
             /\ StoredKeys(after) = StoredKeys(SingleBuild(root))]_vars

(* a rebuild over a network whose callback had fetched an image and stored *)
(* last_update: the key is gone again                                      *)
C1_Witness ==
    /\ lastBuild.existedGen >= 1
    /\ \E f \in fs : f.by = "driver"
    /\ ~HasKey(Graph, AiComp(Append(lastBuild.tower, "visuals")), "last_update")
    /\ HasKey(Graph, AiComp(Append(lastBuild.tower, "visuals")), "interval")

(* C2: the component build returned is the towerRites child of root, created *)
(* by this call, with exactly the children controls, visuals and output, and *)
(* the keys controls, visuals, output (referring to those children) and      *)
(* build_version; it is not the component that was there before              *)
C2_ReturnsNewTower ==
    (lastBuild.root # NoPath /\ ~lastBuild.raised) =>
        LET t == lastBuild.tower
            kids == {"controls", "visuals", "output"}
        IN /\ t = Append(lastBuild.root, TOWER)
           /\ Exists(Graph, t)
           /\ GenOf(Graph, t) = lastBuild.gen
           /\ lastBuild.gen # lastBuild.existedGen
           /\ {o.path : o \in Children(Graph, t)} = {Append(t, k) : k \in kids}
           /\ Keys(Graph, t) = kids \cup {"build_version"}
           /\ \A k \in kids :
                Fetch(Graph, t, k, NoVal) = OpVal(Append(t, k), lastBuild.gen)
                /\ GenOf(Graph, Append(t, k)) = lastBuild.gen

C2_Witness ==
    /\ lastBuild.existedGen >= 1
    /\ ~lastBuild.raised
    /\ Exists(Graph, Append(lastBuild.tower, "controls"))
    /\ Fetch(Graph, lastBuild.tower, "build_version", NoVal) = StrVal(BUILD_VERSION)

(* what C3 says of build() with root omitted *)
C3_DefaultRoot ==
    ~lastBuild'.explicit =>
        /\ lastBuild'.lookedUp
        /\ lastBuild'.raised <=> ~Exists(Graph, PROJECT1)
        /\ lastBuild'.raised => UNCHANGED graphVars
        /\ ~lastBuild'.raised => Parent(lastBuild'.tower) = PROJECT1

(* C3 as stated: with an explicit root, /project1 is not looked up and     *)
(* nothing is built under it                                               *)
C3_AsStated ==
    [][IsBuildStep =>
          /\ C3_DefaultRoot
          /\ lastBuild'.explicit =>
                /\ ~lastBuild'.lookedUp
                /\ Under(GraphNext, PROJECT1) = Under(Graph, PROJECT1)]_vars

(* C3 amended: with an explicit root, /project1 is not looked up and        *)
(* the new towerRites is a child of the root passed, nothing outside that   *)
(* root being created, destroyed or modified (so nothing is built under     *)
(* /project1 unless the root passed is /project1 itself or lies inside it)  *)
C3_ExplicitRoot ==
    [][IsBuildStep =>
          /\ C3_DefaultRoot
          /\ lastBuild'.explicit =>
                /\ ~lastBuild'.lookedUp
                /\ ~lastBuild'.raised
                /\ Parent(lastBuild'.tower) = lastBuild'.arg
                /\ Outside(GraphNext, lastBuild'.arg) = Outside(Graph, lastBuild'.arg)]_vars

(* build(stage) next to the network that build() made under /project1 *)
C3_Witness ==
    /\ lastBuild.explicit
    /\ lastBuild.arg = STAGE
    /\ lastBuild.gen = 2
    /\ GenOf(Graph, Append(PROJECT1, TOWER)) = 1
    /\ GenOf(Graph, Append(STAGE, TOWER)) = 2

(* C4: an invocation issues the request only if now - last_update >=        *)
(* max(2, interval - 4.5 * audio_env) with audio_env >= 0, and never less   *)
(* than 2 seconds after the previous request of the same component          *)
C4_TimerSpacing ==
    [][lastFrame'.requested =>
          LET comp == lastFrame'.comp
              last_update == Fetch(Graph, comp, "last_update", NumVal(0)).num
              interval == Fetch(Graph, comp, "interval", NumVal(DEFAULT_INTERVAL)).num
          IN /\ lastFrame'.audio >= 0
             /\ now - last_update >= Max(2, interval - lastFrame'.audio)
             /\ \A r \in Roots :
                  (IsUnder(comp, r) /\ lastReq[r] # -1) => now - lastReq[r] >= 2]_vars

(* C5: an invocation that issued the request returned normally and left *)
(* last_update at the time of the invocation, whatever came back        *)
C5_BestEffort ==
    lastFrame.requested =>
        /\ lastFrame.returned = "normal"
        /\ Fetch(Graph, lastFrame.comp, "last_update", NoVal) = NumVal(now)

(* C6: the file the callback opened for writing is the file parameter of  *)
(* aiGenerator/generated as the host resolves it, generated_top names that *)
(* loader and the reload pulse went to it, the loader is input 0 of        *)
(* aiGenerator/out and that is input 1 of visuals/aiCross                  *)
C6_WrittenFileIsLoaded ==
    lastFrame.opened =>
        LET comp == lastFrame.comp
            loader == Append(comp, "generated")
            out == Append(comp, "out")
            ai_cross == Append(Parent(comp), "aiCross")
        IN /\ comp[Len(comp)] = "aiGenerator"
           /\ Exists(Graph, loader)
           /\ OpAt(Graph, loader).type = "moviefileinTOP"
           /\ HasPar(Graph, loader, "file")
           /\ lastFrame.target
                = ResolveFile(ProjectFolder, ParOf(Graph, loader, "file").refs[1])
           /\ HasFile(fs, lastFrame.target)
           /\ Fetch(Graph, comp, "generated_top", NoVal) = PathVal(loader)
           /\ lastFrame.pulsed => lastFrame.pulsedOp = loader
           /\ InputOf(Graph, out, 0) = loader
           /\ InputOf(Graph, ai_cross, 1) = out

(* an image was fetched, written and the loader pulsed, after a rebuild *)
C6_Witness ==
    /\ lastFrame.completed
    /\ lastFrame.pulsed
    /\ lastBuild.existedGen >= 1
    /\ \E f \in fs : f.path = TargetFile /\ f.by = "driver" /\ f.bytes = 3

(* the operators p takes its image or its values from: its inputs and the *)
(* operators its parameters refer to                                      *)
Sources(G, p) ==
    {i.src : i \in {j \in G.inputs : j.dst = p}}
    \cup {o.path : o \in {n \in G.ops : \E q \in G.pars :
                             q.owner = p /\ \E k \in 1..Len(q.refs) : q.refs[k] = n.path}}

RECURSIVE Upstream(_, _)
Upstream(G, seen) ==
    LET more == seen \cup UNION {Sources(G, p) : p \in seen}
    IN IF more = seen THEN seen ELSE Upstream(G, more)

(* C7: wherever build made the visuals network, feedback feeds             *)
(* feedbackComposite (through feedbackTransform) and feedbackComposite is  *)
(* routed back into feedback, so that feedback lies on a cycle             *)
C7_FeedbackLoop ==
    \A r \in Roots :
        LET vis == r \o <<TOWER, "visuals">>
            feedback == Append(vis, "feedback")
            comp == Append(vis, "feedbackComposite")
        IN Exists(Graph, feedback) =>
              /\ feedback \in Upstream(Graph, Sources(Graph, comp))
              /\ comp \in Upstream(Graph, Sources(Graph, feedback))

FileOf(F) == {f \in F : f.path = TargetFile}

(* the response carried no image: not an object, or images missing or empty *)
EmptyResponse(resp) ==
    \/ resp.top # "dict"
    \/ resp.images.type \in {"absent", "null"}
    \/ resp.images.type = "list" /\ resp.images.items = <<>>
    \/ resp.images.type = "str" /\ resp.images.text = <<>>

(* the request "succeeded": an answer arrived and its status is below 400 *)
Succeeded(resp) == resp.transport /\ resp.status \in 200..399

NonEmptyList(images) == images.type = "list" /\ images.items # <<>>

NonEmptyString(images) == images.type = "str" /\ images.text # <<>>

(* what C8 says of one invocation; orString: images may be a string too *)
C8_Invocation(orString) ==
    lastFrame'.returned # "none" =>
        LET L == lastFrame'
            failed == ~(L.requested /\ Succeeded(L.resp) /\ L.resp.json)
            written == L.opened \/ FileOf(fs') # FileOf(fs)
        IN /\ written => (~failed /\ L.resp.top = "dict" /\ (NonEmptyList(L.resp.images)
                                \/ (orString /\ NonEmptyString(L.resp.images))))
           /\ L.pulsed =>
                 /\ L.completed
                 /\ \E f \in FileOf(fs') : f.by = "driver" /\ f.complete
                 /\ L.pulsedOp = Append(L.comp, "generated")
           /\ (failed \/ EmptyResponse(L.resp)
                  \/ L.write \in {"open_fails", "write_fails"}) => ~L.pulsed
           /\ (failed \/ EmptyResponse(L.resp)) => FileOf(fs') = FileOf(fs)


(* C8 as stated: latest.png is written only when the request succeeded and *)
(* the response is a dict with a non-empty images list; the reload pulse   *)
(* only after a complete write in the same invocation; no pulse on request *)
(* failure, empty response or write failure; the file untouched on request *)
(* failure or empty response                                               *)
C8_AsStated == [][C8_Invocation(FALSE)]_vars

(* C8 amended: ... only when the request succeeded and the response is a   *)
(* dict whose images value is a non-empty list or a non-empty string; the  *)
(* rest as stated                                                          *)
C8_WriteThenPulse == [][C8_Invocation(TRUE)]_vars

(* images was the string "!": an empty file was written and the loader pulsed *)
C8_Witness ==
    /\ lastFrame.completed
    /\ lastFrame.pulsed
    /\ lastFrame.resp.images.type = "str"
    /\ \E f \in FileOf(fs) : f.by = "driver" /\ f.bytes = 0 /\ f.complete

====
